---- MODULE Spec2Model ----
(***************************************************************************)
(* Model of scripts/generate_stats.py.                                      *)
(* Spec: one run of main.  The username is resolved, get_user_stats issues *)
(* its GitHub requests one after another, the statistics record is graded  *)
(* by calculate_grade, rendered and written.                               *)
(* SpecGrade: calculate_grade applied to records of non-negative counts.   *)
(* Scores are kept in half points (score2 = 2 * score) because the commit  *)
(* term has weight 0.5.  identity_given records whether the run was given  *)
(* a non-empty argument or environment value, calls is the log of the      *)
(* requests issued, pending the request in flight with its response.       *)
(***************************************************************************)
EXTENDS Integers, Sequences, FiniteSets, TLC

VARIABLES pc, username, identity_given, user_data, repos, total_stars,
          prs_data, issues_data, avatar_base64, total_commits, idx,
          calls, pending, stats, score2, grade, file_written, exit_code,
          raised_in

vars == <<pc, username, identity_given, user_data, repos, total_stars,
          prs_data, issues_data, avatar_base64, total_commits, idx,
          calls, pending, stats, score2, grade, file_written, exit_code,
          raised_in>>

(* ---------------------------------------------------------------------- *)
(* Python values that cross the JSON / environment boundary               *)
(* ---------------------------------------------------------------------- *)
PyNone == [t |-> "None"]

PyInt(n) == [t |-> "int", v |-> n]

PyStr(s) == [t |-> "str", v |-> s]

\* Python truthiness: None, 0 and "" are falsy.
Truthy(x) ==
    \/ x.t = "int" /\ x.v # 0
    \/ x.t = "str" /\ x.v # ""

\* `a or b`
PyOr(a, b) == IF Truthy(a) THEN a ELSE b

\* dict.get(key, default): the default is used only when the key is absent;
\* a key present with a null value yields None.
Get(doc, key, default) == IF key \in DOMAIN doc THEN doc[key] ELSE default

Min(a, b) == IF a < b THEN a ELSE b

(* ---------------------------------------------------------------------- *)
(* Bounds and program constants                                           *)
(* ---------------------------------------------------------------------- *)
MAX_REPOS_FOR_COMMITS == 10

\* Largest repository listing the remote returns in the model.
MaxRepos == 11

\* Last-page number carried by a paginated commit response.
LastPage == 2

(* ---------------------------------------------------------------------- *)
(* main: username resolution                                              *)
(* ---------------------------------------------------------------------- *)
ArgVals == {PyNone, PyStr(""), PyStr("cli-user")}

EnvUserVals == {PyNone, PyStr(""), PyStr("env-user")}

EnvOwnerVals == {PyNone, PyStr(""), PyStr("owner")}

\* username = env GITHUB_USERNAME or env GITHUB_REPOSITORY_OWNER;
\* an argv[1], when present, replaces it (even when it is empty).
ResolveUsername(argv1, envUser, envOwner) ==
    IF argv1 # PyNone THEN argv1 ELSE PyOr(envUser, envOwner)

\* Variant: the check is `username is None`.
UsernameIsNone(u) == u = PyNone

\* `if not username`
NotUsername(u) == ~Truthy(u)

(* ---------------------------------------------------------------------- *)
(* Remote responses                                                       *)
(* ---------------------------------------------------------------------- *)
Failure == [ok |-> FALSE]

Ok(body) == [ok |-> TRUE, body |-> body]

UserDocs ==
    { [login |-> PyStr("octocat"), name |-> PyStr("The Octocat"),
       avatar_url |-> PyStr("https://avatars/1"),
       public_repos |-> PyInt(2), followers |-> PyInt(1),
       following |-> PyInt(3)],
      [login |-> PyStr("octocat")],
      [login |-> PyStr("octocat"), name |-> PyNone, avatar_url |-> PyNone,
       public_repos |-> PyNone, followers |-> PyInt(0 - 1),
       following |-> PyInt(0)] }

SearchDocs ==
    { [total_count |-> PyInt(2)],
      [incomplete_results |-> PyInt(0)],
      [total_count |-> PyNone] }

\* Repository i of a listing: every third one lacks stargazers_count, the
\* others carry i % 3 stars; in a "null" listing the last one carries null.
RepoDoc(i, n, kind) ==
    IF kind = "null" /\ i = n
    THEN [name |-> i, stargazers_count |-> PyNone]
    ELSE IF i % 3 = 0
         THEN [name |-> i]
         ELSE [name |-> i, stargazers_count |-> PyInt(i % 3)]

Listing(n, kind) == [i \in 1..n |-> RepoDoc(i, n, kind)]

Listings ==
    {Listing(n, "plain") : n \in 0..MaxRepos}
        \cup {Listing(n, "null") : n \in 1..MaxRepos}

Images == {"png"}

\* base64.b64encode(image_data).decode("utf-8")
B64(image) == IF image = "png" THEN "cG5n" ELSE ""

\* A Link header is a list of links <url?k1=v1&k2=v2>; rel="r", each kept as
\* its query parameters in order and its rel value.
Param(k, v) == [k |-> k, v |-> v]

Link(params, rel) == [params |-> params, rel |-> rel]

LinkHeaders ==
    { <<>>,
      << Link(<<Param("author", 0), Param("per_page", 1), Param("page", 2)>>, "next"),
         Link(<<Param("author", 0), Param("per_page", 1), Param("page", LastPage)>>, "last") >>,
      << Link(<<Param("page", LastPage), Param("per_page", 1)>>, "last") >>,
      << Link(<<Param("page", LastPage), Param("author", 0)>>, "last") >> }

\* A commit lookup either fails (urlopen raises, or the body does not
\* decode) or returns headers and a JSON list of at most per_page = 1 commits.
CommitResponses ==
    {Failure} \cup
    { r \in [ok : {TRUE}, link : LinkHeaders, items : 0..1] :
        r.link = <<>> \/ r.items = 1 }

ProfileResponses == {Failure} \cup {Ok(d) : d \in UserDocs}

ReposResponses == {Failure} \cup {Ok(l) : l \in Listings}

SearchResponses == {Failure} \cup {Ok(d) : d \in SearchDocs}

AvatarResponses == {Failure} \cup {Ok(i) : i \in Images}

(* ---------------------------------------------------------------------- *)
(* get_user_stats helpers                                                 *)
(* ---------------------------------------------------------------------- *)
StarsOf(repo) == Get(repo, "stargazers_count", PyInt(0))

\* sum(...) raises TypeError as soon as one addend is None.
SumStarsRaises(rs) == \E i \in 1..Len(rs) : StarsOf(rs[i]).t # "int"

RECURSIVE SumStars(_)
SumStars(rs) ==
    IF rs = <<>> THEN 0
    ELSE StarsOf(rs[1]).v + SumStars(Tail(rs))

\* Variant: the loop runs over the whole listing.
SampledAll(rs) == rs

\* repos[:MAX_REPOS_FOR_COMMITS]
Sampled(rs) == SubSeq(rs, 1, Min(Len(rs), MAX_REPOS_FOR_COMMITS))

\* 'rel="last"' in link_header
HasRelLast(h) == \E i \in 1..Len(h) : h[i].rel = "last"

\* The text "page=<digits>>; rel="last"" occurs in a link exactly when its
\* rel is last and its final query parameter has a name ending in "page".
LinkMatches(l) ==
    /\ l.rel = "last"
    /\ Len(l.params) > 0
    /\ l.params[Len(l.params)].k \in {"page", "per_page"}

\* re.search(r"page=(\d+)>; rel=\"last\"", link_header): the leftmost match,
\* as the captured number, or -1 for no match.
ReSearch(h) ==
    IF \E i \in 1..Len(h) : LinkMatches(h[i])
    THEN LET i == CHOOSE j \in 1..Len(h) :
                    /\ LinkMatches(h[j])
                    /\ \A m \in 1..(j - 1) : ~LinkMatches(h[m])
         IN  h[i].params[Len(h[i].params)].v
    ELSE 0 - 1

\* What one successful commit lookup adds to total_commits.
CommitAmount(resp) ==
    IF HasRelLast(resp.link)
    THEN IF ReSearch(resp.link) >= 0 THEN ReSearch(resp.link) ELSE 0
    ELSE resp.items

CommitCall(repo) == [op |-> "commits", repo |-> repo.name]

ApiCall(op) == [op |-> op, repo |-> 0]

\* The record returned by get_user_stats.
BuildStats(u, ud, av, stars, prs, issues, commits) ==
    [username |-> u.v,
     name |-> PyOr(Get(ud, "name", PyNone), u).v,
     avatar_base64 |-> av,
     repos |-> Get(ud, "public_repos", PyInt(0)),
     followers |-> Get(ud, "followers", PyInt(0)),
     following |-> Get(ud, "following", PyInt(0)),
     stars |-> PyInt(stars),
     prs |-> Get(prs, "total_count", PyInt(0)),
     issues |-> Get(issues, "total_count", PyInt(0)),
     commits |-> PyInt(commits)]

(* ---------------------------------------------------------------------- *)
(* calculate_grade                                                        *)
(* ---------------------------------------------------------------------- *)
ScoredFields == {"repos", "followers", "stars", "prs", "commits", "issues"}

\* None * 2 raises TypeError.
GradeRaises(st) == \E f \in ScoredFields : st[f].t # "int"

\* Variant: the term is not capped.
TermUncapped(raw, weight2, cap2) == raw * weight2

\* One `score += min(raw * weight, cap)`, in half points.
Term(raw, weight2, cap2) == Min(raw * weight2, cap2)

\* Variant: the following count is scored like the follower count.
Score2WithFollowing(st) ==
    Min(st.repos.v * 4, 100) + Min(st.followers.v * 2, 100)
        + Min(st.stars.v * 6, 150) + Min(st.prs.v * 10, 150)
        + Min(st.commits.v, 100) + Min(st.issues.v * 4, 50)
        + Min(st.following.v * 2, 100)

Score2(st) ==
    LET s0 == 0
        s1 == s0 + Term(st.repos.v, 4, 100)
        s2 == s1 + Term(st.followers.v, 2, 100)
        s3 == s2 + Term(st.stars.v, 6, 150)
        s4 == s3 + Term(st.prs.v, 10, 150)
        s5 == s4 + Term(st.commits.v, 1, 100)
        s6 == s5 + Term(st.issues.v, 4, 50)
    IN  s6

GradeOf(s2) ==
    IF s2 >= 600 THEN "S"
    ELSE IF s2 >= 400 THEN "+A"
    ELSE IF s2 >= 300 THEN "A"
    ELSE IF s2 >= 200 THEN "+B"
    ELSE IF s2 >= 150 THEN "B"
    ELSE IF s2 >= 100 THEN "+C"
    ELSE IF s2 >= 50 THEN "C"
    ELSE "D"

calculate_grade(st) == GradeOf(Score2(st))

(* ---------------------------------------------------------------------- *)
(* State machine of one run                                               *)
(* ---------------------------------------------------------------------- *)
NoDoc == [unset |-> PyNone]

NoStats == [unset |-> PyNone]

Init ==
    /\ pc = "main"
    /\ username = PyNone
    /\ identity_given = FALSE
    /\ user_data = NoDoc
    /\ repos = <<>>
    /\ total_stars = 0
    /\ prs_data = NoDoc
    /\ issues_data = NoDoc
    /\ avatar_base64 = ""
    /\ total_commits = 0
    /\ idx = 0
    /\ calls = <<>>
    /\ pending = {}
    /\ stats = NoStats
    /\ score2 = 0
    /\ grade = ""
    /\ file_written = FALSE
    /\ exit_code = 0 - 1
    /\ raised_in = ""

\* Variant: the handler reports the error but does not call sys.exit(1).
FatalExitZero(site) ==
    /\ pc' = "exit0"
    /\ exit_code' = 0
    /\ raised_in' = site
    /\ pending' = {}

\* An exception reaches main's handler: "Error generating stats", exit(1).
Fatal(site) ==
    /\ pc' = "exit1"
    /\ exit_code' = 1
    /\ raised_in' = site
    /\ pending' = {}

\* Variant: a request is issued without waiting for the one in flight.
IssueUnguarded(call, resp) ==
    /\ pending' = pending \cup {[call |-> call, resp |-> resp]}
    /\ calls' = Append(calls, call)

\* urlopen is called: the request is in flight together with the response
\* the remote gives to it.
Issue(call, resp) ==
    /\ pending = {}
    /\ pending' = {[call |-> call, resp |-> resp]}
    /\ calls' = Append(calls, call)

Response == (CHOOSE p \in pending : TRUE).resp

\* main, up to "Fetching stats for user".
MainResolve ==
    /\ pc = "main"
    /\ \E argv1 \in ArgVals, envUser \in EnvUserVals, envOwner \in EnvOwnerVals :
          /\ username' = ResolveUsername(argv1, envUser, envOwner)
          /\ identity_given' =
                (Truthy(argv1) \/ Truthy(envUser) \/ Truthy(envOwner))
    /\ IF NotUsername(username')
       THEN /\ pc' = "exit1"
            /\ exit_code' = 1
            /\ raised_in' = "identity"
       ELSE /\ pc' = "profile"
            /\ UNCHANGED <<exit_code, raised_in>>
    /\ UNCHANGED <<user_data, repos, total_stars, prs_data, issues_data,
                   avatar_base64, total_commits, idx, calls, pending, stats,
                   score2, grade, file_written>>

SendProfile ==
    /\ pc = "profile"
    /\ \E r \in ProfileResponses : Issue(ApiCall("profile"), r)
    /\ UNCHANGED <<pc, username, identity_given, user_data, repos,
                   total_stars, prs_data, issues_data, avatar_base64,
                   total_commits, idx, stats, score2, grade, file_written,
                   exit_code, raised_in>>

RecvProfile ==
    /\ pc = "profile"
    /\ pending # {}
    /\ IF Response.ok
       THEN /\ user_data' = Response.body
            /\ pc' = "repos"
            /\ pending' = {}
            /\ UNCHANGED <<exit_code, raised_in>>
       ELSE /\ Fatal("profile")
            /\ UNCHANGED user_data
    /\ UNCHANGED <<username, identity_given, repos, total_stars, prs_data,
                   issues_data, avatar_base64, total_commits, idx, calls,
                   stats, score2, grade, file_written>>

SendRepos ==
    /\ pc = "repos"
    /\ \E r \in ReposResponses : Issue(ApiCall("repos"), r)
    /\ UNCHANGED <<pc, username, identity_given, user_data, repos,
                   total_stars, prs_data, issues_data, avatar_base64,
                   total_commits, idx, stats, score2, grade, file_written,
                   exit_code, raised_in>>

RecvRepos ==
    /\ pc = "repos"
    /\ pending # {}
    /\ IF ~Response.ok
       THEN /\ Fatal("repos")
            /\ UNCHANGED <<repos, total_stars>>
       ELSE /\ repos' = Response.body
            /\ IF SumStarsRaises(repos')
               THEN /\ Fatal("total_stars")
                    /\ UNCHANGED total_stars
               ELSE /\ total_stars' = SumStars(repos')
                    /\ pc' = "prs"
                    /\ pending' = {}
                    /\ UNCHANGED <<exit_code, raised_in>>
    /\ UNCHANGED <<username, identity_given, user_data, prs_data,
                   issues_data, avatar_base64, total_commits, idx, calls,
                   stats, score2, grade, file_written>>

SendPrs ==
    /\ pc = "prs"
    /\ \E r \in SearchResponses : Issue(ApiCall("prs"), r)
    /\ UNCHANGED <<pc, username, identity_given, user_data, repos,
                   total_stars, prs_data, issues_data, avatar_base64,
                   total_commits, idx, stats, score2, grade, file_written,
                   exit_code, raised_in>>

RecvPrs ==
    /\ pc = "prs"
    /\ pending # {}
    /\ IF Response.ok
       THEN /\ prs_data' = Response.body
            /\ pc' = "issues"
            /\ pending' = {}
            /\ UNCHANGED <<exit_code, raised_in>>
       ELSE /\ Fatal("prs")
            /\ UNCHANGED prs_data
    /\ UNCHANGED <<username, identity_given, user_data, repos, total_stars,
                   issues_data, avatar_base64, total_commits, idx, calls,
                   stats, score2, grade, file_written>>

SendIssues ==
    /\ pc = "issues"
    /\ \E r \in SearchResponses : Issue(ApiCall("issues"), r)
    /\ UNCHANGED <<pc, username, identity_given, user_data, repos,
                   total_stars, prs_data, issues_data, avatar_base64,
                   total_commits, idx, stats, score2, grade, file_written,
                   exit_code, raised_in>>

RecvIssues ==
    /\ pc = "issues"
    /\ pending # {}
    /\ IF Response.ok
       THEN /\ issues_data' = Response.body
            /\ pc' = "avatar"
            /\ pending' = {}
            /\ UNCHANGED <<exit_code, raised_in>>
       ELSE /\ Fatal("issues")
            /\ UNCHANGED issues_data
    /\ UNCHANGED <<username, identity_given, user_data, repos, total_stars,
                   prs_data, avatar_base64, total_commits, idx, calls,
                   stats, score2, grade, file_written>>

\* user_data.get("avatar_url") is falsy: no fetch, the avatar stays "".
SkipAvatar ==
    /\ pc = "avatar"
    /\ pending = {}
    /\ ~Truthy(Get(user_data, "avatar_url", PyNone))
    /\ pc' = "commits"
    /\ UNCHANGED <<username, identity_given, user_data, repos, total_stars,
                   prs_data, issues_data, avatar_base64, total_commits, idx,
                   calls, pending, stats, score2, grade, file_written,
                   exit_code, raised_in>>

SendAvatar ==
    /\ pc = "avatar"
    /\ Truthy(Get(user_data, "avatar_url", PyNone))
    /\ \E r \in AvatarResponses : Issue(ApiCall("avatar"), r)
    /\ UNCHANGED <<pc, username, identity_given, user_data, repos,
                   total_stars, prs_data, issues_data, avatar_base64,
                   total_commits, idx, stats, score2, grade, file_written,
                   exit_code, raised_in>>

\* fetch_avatar_base64: any exception is caught and "" is returned.
RecvAvatar ==
    /\ pc = "avatar"
    /\ pending # {}
    /\ avatar_base64' = IF Response.ok THEN B64(Response.body) ELSE ""
    /\ pc' = "commits"
    /\ pending' = {}
    /\ UNCHANGED <<username, identity_given, user_data, repos, total_stars,
                   prs_data, issues_data, total_commits, idx, calls, stats,
                   score2, grade, file_written, exit_code, raised_in>>

\* One iteration of `for repo in repos[:MAX_REPOS_FOR_COMMITS]`, up to the
\* urlopen call; idx counts the iterations already finished.
SendCommit ==
    /\ pc = "commits"
    /\ idx < Len(Sampled(repos))
    /\ \E r \in CommitResponses :
          Issue(CommitCall(Sampled(repos)[idx + 1]), r)
    /\ UNCHANGED <<pc, username, identity_given, user_data, repos,
                   total_stars, prs_data, issues_data, avatar_base64,
                   total_commits, idx, stats, score2, grade, file_written,
                   exit_code, raised_in>>

\* Variant: the loop body has no try/except.
RecvCommitRaises ==
    /\ pc = "commits"
    /\ pending # {}
    /\ IF Response.ok
       THEN /\ total_commits' = total_commits + CommitAmount(Response)
            /\ idx' = idx + 1
            /\ pending' = {}
            /\ UNCHANGED <<pc, exit_code, raised_in>>
       ELSE /\ Fatal("commits")
            /\ UNCHANGED <<total_commits, idx>>
    /\ UNCHANGED <<username, identity_given, user_data, repos,
                   total_stars, prs_data, issues_data, avatar_base64, calls,
                   stats, score2, grade, file_written>>

\* The rest of the iteration: the with-block, or `except Exception: pass`.
RecvCommit ==
    /\ pc = "commits"
    /\ pending # {}
    /\ total_commits' =
          IF Response.ok THEN total_commits + CommitAmount(Response)
          ELSE total_commits
    /\ idx' = idx + 1
    /\ pending' = {}
    /\ UNCHANGED <<pc, username, identity_given, user_data, repos,
                   total_stars, prs_data, issues_data, avatar_base64, calls,
                   stats, score2, grade, file_written, exit_code, raised_in>>

\* The loop is exhausted: get_user_stats returns the record to main.
ReturnStats ==
    /\ pc = "commits"
    /\ pending = {}
    /\ idx = Len(Sampled(repos))
    /\ stats' = BuildStats(username, user_data, avatar_base64, total_stars,
                           prs_data, issues_data, total_commits)
    /\ pc' = "render"
    /\ UNCHANGED <<username, identity_given, user_data, repos, total_stars,
                   prs_data, issues_data, avatar_base64, total_commits, idx,
                   calls, pending, score2, grade, file_written, exit_code,
                   raised_in>>

\* generate_svg(stats): the grade is computed first; a None count makes
\* calculate_grade raise TypeError, which main reports.
Render ==
    /\ pc = "render"
    /\ IF GradeRaises(stats)
       THEN /\ Fatal("calculate_grade")
            /\ UNCHANGED <<score2, grade>>
       ELSE /\ score2' = Score2(stats)
            /\ grade' = calculate_grade(stats)
            /\ pc' = "write"
            /\ UNCHANGED <<pending, exit_code, raised_in>>
    /\ UNCHANGED <<username, identity_given, user_data, repos, total_stars,
                   prs_data, issues_data, avatar_base64, total_commits, idx,
                   calls, stats, file_written>>

\* os.makedirs, open and write of the SVG, then the prints (which call
\* calculate_grade once more on the same record).  The file system may
\* refuse before the file is opened, or after it has been created.
WriteFile ==
    /\ pc = "write"
    /\ \E outcome \in {"ok", "open_error", "write_error"} :
          IF outcome = "ok"
          THEN /\ file_written' = TRUE
               /\ pc' = "exit0"
               /\ exit_code' = 0
               /\ UNCHANGED <<pending, raised_in>>
          ELSE /\ Fatal("write")
               /\ file_written' = (outcome = "write_error")
    /\ UNCHANGED <<username, identity_given, user_data, repos, total_stars,
                   prs_data, issues_data, avatar_base64, total_commits, idx,
                   calls, stats, score2, grade>>

Next ==
    \/ MainResolve
    \/ SendProfile
    \/ RecvProfile
    \/ SendRepos
    \/ RecvRepos
    \/ SendPrs
    \/ RecvPrs
    \/ SendIssues
    \/ RecvIssues
    \/ SkipAvatar
    \/ SendAvatar
    \/ RecvAvatar
    \/ SendCommit
    \/ RecvCommit
    \/ ReturnStats
    \/ Render
    \/ WriteFile

Spec == Init /\ [][Next]_vars

(* ---------------------------------------------------------------------- *)
(* calculate_grade on its own: records of non-negative counts are graded, *)
(* then a record differing in one field is graded again.                  *)
(* ---------------------------------------------------------------------- *)
FieldVals ==
    [repos     |-> {PyInt(0), PyInt(10), PyInt(100)},
     followers |-> {PyInt(0), PyInt(20), PyInt(1000)},
     stars     |-> {PyInt(0), PyInt(5), PyInt(1000)},
     prs       |-> {PyInt(0), PyInt(3), PyInt(1000)},
     commits   |-> {PyInt(0), PyInt(1), PyInt(10), PyInt(98), PyInt(1000)},
     issues    |-> {PyInt(0), PyInt(2), PyInt(12), PyInt(1000)},
     following |-> {PyInt(0), PyInt(500)},
     username  |-> {"octocat", "hubot"},
     name      |-> {"The Octocat", "hubot"},
     avatar_base64 |-> {"", "cG5n"}]

GradeInputs ==
    [username : {"octocat"}, name : {"The Octocat"}, avatar_base64 : {""},
     repos : FieldVals.repos, followers : FieldVals.followers,
     following : {PyInt(0)}, stars : FieldVals.stars, prs : FieldVals.prs,
     issues : FieldVals.issues, commits : FieldVals.commits]

InitGrade ==
    /\ pc = "calc"
    /\ stats \in GradeInputs
    /\ username = PyStr("octocat")
    /\ identity_given = TRUE
    /\ user_data = NoDoc
    /\ repos = <<>>
    /\ total_stars = 0
    /\ prs_data = NoDoc
    /\ issues_data = NoDoc
    /\ avatar_base64 = ""
    /\ total_commits = 0
    /\ idx = 0
    /\ calls = <<>>
    /\ pending = {}
    /\ score2 = 0
    /\ grade = ""
    /\ file_written = FALSE
    /\ exit_code = 0 - 1
    /\ raised_in = ""

CalculateGrade ==
    /\ pc = "calc"
    /\ score2' = Score2(stats)
    /\ grade' = calculate_grade(stats)
    /\ pc' = "graded"
    /\ UNCHANGED <<username, identity_given, user_data, repos, total_stars,
                   prs_data, issues_data, avatar_base64, total_commits, idx,
                   calls, pending, stats, file_written, exit_code, raised_in>>

Regrade ==
    /\ pc = "graded"
    /\ \E f \in DOMAIN FieldVals :
          \E x \in FieldVals[f] :
             /\ x # stats[f]
             /\ stats' = [stats EXCEPT ![f] = x]
    /\ score2' = Score2(stats')
    /\ grade' = calculate_grade(stats')
    /\ pc' = "regraded"
    /\ UNCHANGED <<username, identity_given, user_data, repos, total_stars,
                   prs_data, issues_data, avatar_base64, total_commits, idx,
                   calls, pending, file_written, exit_code, raised_in>>

NextGrade ==
    \/ CalculateGrade
    \/ Regrade

SpecGrade == InitGrade /\ [][NextGrade]_vars

(* ====================================================================== *)
(* Properties                                                             *)
(* ====================================================================== *)
Graded == pc \in {"graded", "regraded"}

\* A record has been returned by get_user_stats.
Returned == "username" \in DOMAIN stats

InFlight == CHOOSE p \in pending : TRUE

GradeNames == {"S", "A+", "A", "B+", "B", "C+", "C", "D"}

BandGrade(s2) ==
    IF s2 >= 600 THEN "S"
    ELSE IF s2 >= 400 THEN "A+"
    ELSE IF s2 >= 300 THEN "A"
    ELSE IF s2 >= 200 THEN "B+"
    ELSE IF s2 >= 150 THEN "B"
    ELSE IF s2 >= 100 THEN "C+"
    ELSE IF s2 >= 50 THEN "C"
    ELSE "D"

\* C1: every graded record gets a grade of {S, A+, A, B+, B, C+, C, D}, the
\* one of the first band its score reaches, highest band first (score 200
\* is A+, score 199 is A).
C1_GradeBands ==
    Graded => (grade \in GradeNames /\ grade = BandGrade(score2))

Capped(x, cap) == IF x > cap THEN cap ELSE x

\* C2: the score is the sum of the six terms min(raw * weight, cap), each
\* capped on its own; it lies in 0..325 and 100 repositories contribute
\* exactly 50 (all in half points).
C2_ScoreFormula ==
    Graded =>
        /\ score2 = Capped(4 * stats.repos.v, 100)
                      + Capped(2 * stats.followers.v, 100)
                      + Capped(6 * stats.stars.v, 150)
                      + Capped(10 * stats.prs.v, 150)
                      + Capped(stats.commits.v, 100)
                      + Capped(4 * stats.issues.v, 50)
        /\ score2 >= 0
        /\ score2 <= 650
        /\ stats.repos.v = 100 =>
              score2 - ( Capped(2 * stats.followers.v, 100)
                           + Capped(6 * stats.stars.v, 150)
                           + Capped(10 * stats.prs.v, 150)
                           + Capped(stats.commits.v, 100)
                           + Capped(4 * stats.issues.v, 50) ) = 100

C2_Witness ==
    /\ pc = "graded"
    /\ stats.repos.v = 100
    /\ stats.commits.v = 1
    /\ score2 = 551

\* C9: grading a record that agrees with the previous one on repos,
\* followers, stars, prs, commits and issues gives the same grade, whatever
\* its following count, username, display name or avatar.
C9_GradeIgnoresUnscored ==
    [][ ( /\ pc = "graded"
          /\ pc' = "regraded"
          /\ \A f \in ScoredFields : stats'[f] = stats[f] )
        => grade' = grade ]_vars

C9_Witness ==
    /\ pc = "regraded"
    /\ stats.following.v = 500
    /\ grade = "D"

FatalOps == {"profile", "repos", "prs", "issues"}

BestEffortOps == {"avatar", "commits"}

\* C3: when the profile lookup, the repository listing or one of the two
\* searches fails, the run ends with exit status 1 without a record, a
\* grade or an output file; a written file implies a returned record.
C3_FatalAborts ==
    /\ [][ ( /\ pending # {}
             /\ InFlight.call.op \in FatalOps
             /\ ~InFlight.resp.ok )
           => ( /\ pc' = "exit1"
                /\ exit_code' = 1
                /\ raised_in' = InFlight.call.op
                /\ ~Returned'
                /\ ~file_written' ) ]_vars
    /\ [](raised_in \in FatalOps =>
             /\ pc = "exit1"
             /\ exit_code = 1
             /\ ~Returned
             /\ grade = ""
             /\ ~file_written)
    /\ [](file_written => (Returned /\ grade # ""))

C3_Witness ==
    /\ pc = "exit1"
    /\ raised_in = "repos"
    /\ Len(calls) = 2
    /\ ~file_written

\* C4: a failed avatar fetch leaves the avatar empty and a failed commit
\* lookup adds nothing; either way the run goes on to the commit loop or
\* its next iteration, no error is raised, and a returned record comes
\* after a lookup for every sampled repository.
C4_BestEffortSwallowed ==
    /\ [][ ( /\ pending # {}
             /\ InFlight.call.op \in BestEffortOps
             /\ ~InFlight.resp.ok )
           => ( /\ pc' = "commits"
                /\ raised_in' = ""
                /\ exit_code' = exit_code
                /\ InFlight.call.op = "avatar" => avatar_base64' = ""
                /\ InFlight.call.op = "commits" =>
                      ( /\ total_commits' = total_commits
                        /\ idx' = idx + 1 ) ) ]_vars
    /\ [](raised_in \notin BestEffortOps)
    /\ [](pc \in {"render", "write", "exit0"} =>
             /\ Returned
             /\ idx = Min(Len(repos), MAX_REPOS_FOR_COMMITS)
             /\ stats.commits = PyInt(total_commits)
             /\ stats.avatar_base64 = avatar_base64)

\* The avatar fetch failed (the profile has an avatar reference, yet the
\* avatar is empty), all ten lookups ran and the run completed.
C4_Witness ==
    /\ pc = "exit0"
    /\ Truthy(Get(user_data, "avatar_url", PyNone))
    /\ stats.avatar_base64 = ""
    /\ idx = MAX_REPOS_FOR_COMMITS
    /\ total_commits = 0

\* The page number of the rel="last" link of a Link header.
LastPageOf(h) ==
    LET l == h[CHOOSE i \in 1..Len(h) : h[i].rel = "last"]
        q == CHOOSE j \in 1..Len(l.params) : l.params[j].k = "page"
    IN  l.params[q].v

\* C5: a successful commit lookup adds the last page number when the Link
\* header has a rel="last" link, and otherwise the number of items returned.
C5_CommitAmount ==
    [][ ( /\ pending # {}
          /\ InFlight.call.op = "commits"
          /\ InFlight.resp.ok )
        => total_commits' - total_commits =
              IF HasRelLast(InFlight.resp.link)
              THEN LastPageOf(InFlight.resp.link)
              ELSE InFlight.resp.items ]_vars

CommitCalls == SelectSeq(calls, LAMBDA c : c.op = "commits")

RECURSIVE StarsUpTo(_, _)
StarsUpTo(rs, k) ==
    IF k = 0 THEN 0
    ELSE StarsUpTo(rs, k - 1)
           + (IF "stargazers_count" \in DOMAIN rs[k]
              THEN rs[k].stargazers_count.v ELSE 0)

\* C6: commit lookups go to the first min(n, 10) listed repositories, in
\* listing order, and to no other; the star total covers all n.
C6_SamplingCap ==
    /\ Len(CommitCalls) <= Min(Len(repos), MAX_REPOS_FOR_COMMITS)
    /\ \A i \in 1..Len(CommitCalls) : CommitCalls[i].repo = repos[i].name
    /\ Returned =>
          /\ Len(CommitCalls) = Min(Len(repos), MAX_REPOS_FOR_COMMITS)
          /\ stats.stars = PyInt(StarsUpTo(repos, Len(repos)))

C6_Witness ==
    /\ pc = "exit0"
    /\ Len(repos) > MAX_REPOS_FOR_COMMITS
    /\ Len(CommitCalls) = MAX_REPOS_FOR_COMMITS
    /\ stats.stars.v = StarsUpTo(repos, MAX_REPOS_FOR_COMMITS) + 2

\* C7: without an argument and without a non-empty GITHUB_USERNAME or
\* GITHUB_REPOSITORY_OWNER the run ends with exit status 1, no request
\* issued and no file written.
C7_NoIdentityAborts ==
    (pc # "main" /\ ~identity_given) =>
        /\ pc = "exit1"
        /\ exit_code = 1
        /\ raised_in = "identity"
        /\ calls = <<>>
        /\ pending = {}
        /\ ~file_written

C7_Witness ==
    /\ pc = "exit1"
    /\ ~identity_given
    /\ username = PyStr("")

CountFields ==
    {"repos", "followers", "following", "stars", "prs", "issues", "commits"}

\* C8: every count of a returned record is a non-negative integer.
C8_CountsNonNegative ==
    Returned =>
        \A f \in CountFields : stats[f].t = "int" /\ stats[f].v >= 0

\* The calls a complete run makes, in order.
ExpectedCalls ==
    <<ApiCall("profile"), ApiCall("repos"), ApiCall("prs"), ApiCall("issues")>>
        \o (IF Truthy(Get(user_data, "avatar_url", PyNone))
            THEN <<ApiCall("avatar")>> ELSE <<>>)
        \o [i \in 1..Min(Len(repos), MAX_REPOS_FOR_COMMITS) |->
               [op |-> "commits", repo |-> repos[i].name]]

IsPrefix(a, b) == Len(a) <= Len(b) /\ a = SubSeq(b, 1, Len(a))

\* C10: requests go out one at a time in the order profile, repositories,
\* pull requests, issues, avatar (if the profile has one), commit lookups
\* in listing order; a request is issued only when none is in flight, and
\* the failed fatal request is the last one of its run.
C10_CallOrder ==
    /\ [](IsPrefix(calls, ExpectedCalls))
    /\ [](Cardinality(pending) <= 1)
    /\ [](pending # {} => InFlight.call = calls[Len(calls)])
    /\ [](pc \in {"render", "write", "exit0"} => calls = ExpectedCalls)
    /\ [](raised_in \in FatalOps =>
             (pending = {} /\ calls[Len(calls)].op = raised_in))
    /\ [][calls' # calls =>
             (pending = {} /\ Len(calls') = Len(calls) + 1)]_vars

C10_Witness ==
    /\ pc = "exit0"
    /\ Len(calls) = 15
====
